---- MODULE Spec2Model ----
(***************************************************************************)
(* Model of app.py of the VTO repository: the image normaliser             *)
(* normalize_image (EXIF orientation, 3072 soft cap, 320 minimum with the   *)
(* 4096 safety clamp, JPEG/PNG encoding) and the Generate run of the        *)
(* Streamlit script that calls it twice and then the inference client.      *)
(***************************************************************************)
EXTENDS Integers, Naturals, Sequences, FiniteSets, TLC

VARIABLES
    file,           \* the file-like object handed to normalize_image
    force_format,   \* its force_format argument
    pc,             \* position inside normalize_image
    img,            \* the PIL image held in the local variable img
    src,            \* img right after exif_transpose (orientation-corrected input)
    fired,          \* the conditional steps this call has executed
    resized,        \* the target sizes this call has passed to img.resize
    err,            \* the exception the call has raised, "" when none
    pass,           \* how many times the image has been normalised
    prev,           \* the image encoded by the previous call
    prev_fired,     \* the steps the previous call executed
    session_state,  \* st.session_state of the Streamlit script
    ui_pc,          \* position inside the script's `if run:` block
    locals,         \* src_b64, ref_b64, out_b64 of the current script run
    steps,          \* the calls the current Generate run has made, in order
    pre,            \* session_state when the current Generate run began
    reported,       \* what st.error has shown in the current script run
    widgets         \* garment_class and seed widget values

normVars == <<file, force_format, pc, img, src, fired, resized, err, pass, prev, prev_fired>>
uiVars   == <<session_state, ui_pc, locals, steps, pre, reported, widgets>>
vars     == <<file, force_format, pc, img, src, fired, resized, err, pass, prev,
              prev_fired, session_state, ui_pc, locals, steps, pre, reported, widgets>>

----------------------------------------------------------------------------
(* Bounds of the model *)

\* largest side length among the generated inputs
MaxDim == 6000
\* number of times an image is fed through normalize_image
MaxPasses == 2
\* largest seed value the seed widget is given
MaxSeed == 1

----------------------------------------------------------------------------
(* Constants of normalize_image *)

min_side == 320
abs_cap == 4096
target_max == 3072

Max(a, b) == IF a >= b THEN a ELSE b
Min(a, b) == IF a <= b THEN a ELSE b

----------------------------------------------------------------------------
(* Python float arithmetic: scale = a / float(b); int(w * scale).           *)
(* Both operations round to the nearest IEEE-754 binary64 value (ties to    *)
(* even) and int() truncates.  The operators below compute that result in   *)
(* integers that stay below 2^31.  Write q = a/b and t = w*a/b.             *)
(*  - t not an integer: t is at least 1/b away from an integer while the    *)
(*    two roundings move it by less than t * 2^-52, so int gives floor(t).  *)
(*  - t an integer n: the quotient q is rounded to 53 bits; r is the        *)
(*    remainder that rounding discards.  If q is rounded down, w*fl(q) is   *)
(*    n - d with d = w * (r/b) * 2^(k-52), k = floor(log2 q), and the       *)
(*    product is rounded to n exactly when d is at most half the spacing    *)
(*    2^(j-52) of the doubles just below n (2^j < n <= 2^(j+1), n's         *)
(*    significand is even); otherwise it lands below n and int gives n-1.   *)
(***************************************************************************)

RECURSIVE Pow2(_)
Pow2(n) == IF n = 0 THEN 1 ELSE 2 * Pow2(n - 1)

\* <<(w*a) div b, (w*a) mod b>>, by binary decomposition of a
RECURSIVE DivMul(_, _, _)
DivMul(w, a, b) ==
    IF a = 0 THEN <<0, 0>>
    ELSE LET qr == DivMul(w, a \div 2, b)
             x  == 2 * qr[2] + (a % 2) * w
         IN  <<2 * qr[1] + (x \div b), x % b>>

\* k with 2^k <= a/b < 2^(k+1)
RECURSIVE FloorLog2Up(_, _, _)
FloorLog2Up(a, b, k) == IF a >= 2 * b THEN FloorLog2Up(a, 2 * b, k + 1) ELSE k
RECURSIVE FloorLog2Down(_, _, _)
FloorLog2Down(a, b, k) == IF a < b THEN FloorLog2Down(2 * a, b, k - 1) ELSE k
FloorLog2(a, b) == IF a >= b THEN FloorLog2Up(a, b, 0) ELSE FloorLog2Down(a, b, 0)

\* j with 2^j < n <= 2^(j+1), for n >= 1
RECURSIVE BinadeBelow(_, _)
BinadeBelow(n, j) == IF Pow2(j + 1) < n THEN BinadeBelow(n, j + 1) ELSE j

\* (x * 2^n) mod m
RECURSIVE Pow2Mod(_, _, _)
Pow2Mod(x, n, m) == IF n = 0 THEN x % m ELSE Pow2Mod((2 * x) % m, n - 1, m)

\* a1/b1 > a2/b2 for non-negative numerators and positive denominators,
\* compared by continued fractions so that no product is formed
RECURSIVE FracGT(_, _, _, _)
FracGT(a1, b1, a2, b2) ==
    LET q1 == a1 \div b1
        q2 == a2 \div b2
        r1 == a1 % b1
        r2 == a2 % b2
    IN  IF q1 # q2 THEN q1 > q2
        ELSE IF r1 = 0 THEN FALSE
        ELSE IF r2 = 0 THEN TRUE
        ELSE FracGT(b2, r2, b1, r1)

\* TRUE when fl(a / float(b)) lies below a/b, i.e. the division rounds down
\* (r is the discarded remainder, odd the parity of the kept significand)
DivRoundsDown(a, b) ==
    LET k   == FloorLog2(a, b)
        m2  == Pow2Mod(a % (2 * b), 52 - k, 2 * b)
        r   == m2 % b
        odd == m2 >= b
    IN  r # 0 /\ (2 * r < b \/ (2 * r = b /\ ~odd))

\* int(w * (a / float(b)))
TruncMul(w, a, b) ==
    LET qr == DivMul(w, a, b)
        n  == qr[1]
    IN  IF qr[2] # 0 THEN n
        ELSE IF ~DivRoundsDown(a, b) THEN n
        ELSE LET k  == FloorLog2(a, b)
                 r  == Pow2Mod(a % (2 * b), 52 - k, 2 * b) % b
                 j  == BinadeBelow(n, -1)
                 c  == j - k - 1
                 below == IF c >= 0 THEN FracGT(r, b, Pow2(c), w)
                                    ELSE FracGT(r * Pow2(-c), b, 1, w)
             IN  IF below THEN n - 1 ELSE n

----------------------------------------------------------------------------
(* normalize_image *)

Modes == {"RGB", "RGBA", "L", "LA", "P", "CMYK"}
Formats == {"JPEG", "PNG"}
\* EXIF orientation tags of the inputs: 1 leaves the image, 6 rotates it by 90 degrees
ExifTags == {1, 6}
Sides == {s \in {1, 10, 39, 77, 100, 117, 150, 300, 319, 320, 321, 480, 561, 2048,
                 3071, 3072, 3073, 3366, 4000, 4096, 4146} : s <= MaxDim} \cup {MaxDim}

NoImg == [w |-> 0, h |-> 0, mode |-> ""]
Garbage == [decodable |-> FALSE, w |-> 0, h |-> 0, mode |-> "", exif |-> 1]
DecodableFiles == [decodable : {TRUE}, w : Sides, h : Sides, mode : Modes, exif : ExifTags]

HasAlpha(mode) == mode \in {"RGBA", "LA"}

\* ImageOps.exif_transpose: orientations 5..8 transpose the image, the others keep its size
exif_transpose(f) ==
    IF f.exif \in 5..8 THEN [w |-> f.h, h |-> f.w, mode |-> f.mode]
                       ELSE [w |-> f.w, h |-> f.h, mode |-> f.mode]

long_side(w, h) == Max(w, h)
short_side(w, h) == Min(w, h)

\* if long_side > target_max
NeedsDownscale(w, h) == long_side(w, h) > target_max

\* Step 2 scaled to the hard cap instead of the soft cap
Step2SizeToAbsCap(w, h) ==
    <<TruncMul(w, abs_cap, long_side(w, h)), TruncMul(h, abs_cap, long_side(w, h))>>

\* Step 2 with the two scaled sides in the wrong order
Step2SizeSwapped(w, h) ==
    <<TruncMul(h, target_max, long_side(w, h)), TruncMul(w, target_max, long_side(w, h))>>

\* scale = target_max / float(long_side); (int(w*scale), int(h*scale))
Step2Size(w, h) ==
    <<TruncMul(w, target_max, long_side(w, h)), TruncMul(h, target_max, long_side(w, h))>>

\* if short_side < min_side
NeedsUpscale(w, h) == short_side(w, h) < min_side

\* scale = float(min_side) / float(short_side); new_w, new_h = int(w*scale), int(h*scale)
UpscaleSize(w, h) ==
    <<TruncMul(w, min_side, short_side(w, h)), TruncMul(h, min_side, short_side(w, h))>>

\* the clamp left out
ClampSizeAbsent(nw, nh) == <<nw, nh>>

\* the clamp guarded by the short side
ClampSizeOnShortSide(nw, nh) ==
    IF Min(nw, nh) > abs_cap
    THEN <<TruncMul(nw, abs_cap, Max(nw, nh)), TruncMul(nh, abs_cap, Max(nw, nh))>>
    ELSE <<nw, nh>>

\* if max(new_w, new_h) > abs_cap: s2 = abs_cap / float(max(new_w, new_h)); ...
ClampSize(nw, nh) ==
    IF Max(nw, nh) > abs_cap
    THEN <<TruncMul(nw, abs_cap, Max(nw, nh)), TruncMul(nh, abs_cap, Max(nw, nh))>>
    ELSE <<nw, nh>>

ClampFires(w, h) == Max(UpscaleSize(w, h)[1], UpscaleSize(w, h)[2]) > abs_cap

\* the size Step 3 passes to img.resize
Step3Size(w, h) == ClampSize(UpscaleSize(w, h)[1], UpscaleSize(w, h)[2])

\* Image.resize rejects a target with a side below 1
ResizeFails(size) == size[1] < 1 \/ size[2] < 1

\* force_format.upper()
Upper(s) == CASE s = "jpeg" -> "JPEG" [] s = "png" -> "PNG" [] OTHER -> s

\* the conversion applied to RGBA images only
EncodeModeRGBAOnly(mode, fmt) ==
    IF Upper(fmt) = "JPEG" /\ mode = "RGBA" THEN "RGB" ELSE mode

\* if fmt == "JPEG" and img.mode != "RGB": img = img.convert("RGB")
EncodeMode(mode, fmt) ==
    IF Upper(fmt) = "JPEG" /\ mode # "RGB" THEN "RGB" ELSE mode

\* img.save: the PNG writer has no CMYK output mode
SaveFails(mode, fmt) == Upper(fmt) # "JPEG" /\ mode = "CMYK"

Open ==
    /\ pc = "open"
    /\ IF file.decodable
       THEN /\ img' = exif_transpose(file)
            /\ src' = exif_transpose(file)
            /\ pc' = "step2"
            /\ err' = ""
       ELSE /\ pc' = "error"
            /\ err' = "DecodeError"
            /\ UNCHANGED <<img, src>>
    /\ UNCHANGED <<file, force_format, fired, resized, pass, prev, prev_fired>>
    /\ UNCHANGED uiVars

Downscale ==
    /\ pc = "step2"
    /\ IF NeedsDownscale(img.w, img.h)
       THEN LET size == Step2Size(img.w, img.h)
            IN  /\ resized' = Append(resized, size)
                /\ fired' = fired \cup {"step2"}
                /\ IF ResizeFails(size)
                   THEN pc' = "error" /\ err' = "ResizeError" /\ img' = img
                   ELSE /\ pc' = "step3"
                        /\ err' = err
                        /\ img' = [img EXCEPT !.w = size[1], !.h = size[2]]
       ELSE pc' = "step3" /\ UNCHANGED <<img, fired, resized, err>>
    /\ UNCHANGED <<file, force_format, src, pass, prev, prev_fired>>
    /\ UNCHANGED uiVars

Upscale ==
    /\ pc = "step3"
    /\ IF NeedsUpscale(img.w, img.h)
       THEN LET size == Step3Size(img.w, img.h)
            IN  /\ resized' = Append(resized, size)
                /\ fired' = fired \cup (IF ClampFires(img.w, img.h)
                                        THEN {"step3", "clamp"} ELSE {"step3"})
                /\ IF ResizeFails(size)
                   THEN pc' = "error" /\ err' = "ResizeError" /\ img' = img
                   ELSE /\ pc' = "encode"
                        /\ err' = err
                        /\ img' = [img EXCEPT !.w = size[1], !.h = size[2]]
       ELSE pc' = "encode" /\ UNCHANGED <<img, fired, resized, err>>
    /\ UNCHANGED <<file, force_format, src, pass, prev, prev_fired>>
    /\ UNCHANGED uiVars

Encode ==
    /\ pc = "encode"
    /\ LET mode == EncodeMode(img.mode, force_format)
       IN  IF SaveFails(mode, force_format)
           THEN pc' = "error" /\ err' = "EncodeError" /\ img' = [img EXCEPT !.mode = mode]
           ELSE pc' = "done" /\ err' = err /\ img' = [img EXCEPT !.mode = mode]
    /\ UNCHANGED <<file, force_format, src, fired, resized, pass, prev, prev_fired>>
    /\ UNCHANGED uiVars

\* the encoded image is handed to normalize_image again, with the same format
Renormalize ==
    /\ pc = "done"
    /\ pass < MaxPasses
    /\ file' = [decodable |-> TRUE, w |-> img.w, h |-> img.h, mode |-> img.mode, exif |-> 1]
    /\ prev' = img
    /\ prev_fired' = fired
    /\ pass' = pass + 1
    /\ pc' = "open"
    /\ img' = NoImg
    /\ src' = NoImg
    /\ fired' = {}
    /\ resized' = <<>>
    /\ err' = ""
    /\ UNCHANGED force_format
    /\ UNCHANGED uiVars

----------------------------------------------------------------------------
(* normalize_image as one call, for the script that calls it *)

NoPayload == [ok |-> FALSE, error |-> "", w |-> 0, h |-> 0, mode |-> "", fmt |-> ""]

Raised(e) == [NoPayload EXCEPT !.error = e]

\* the value normalize_image(f, fmt) returns, or the exception it raises
normalize_image(f, fmt) ==
    IF ~f.decodable THEN Raised("DecodeError")
    ELSE LET i0 == exif_transpose(f)
             s2 == IF NeedsDownscale(i0.w, i0.h) THEN Step2Size(i0.w, i0.h)
                                                 ELSE <<i0.w, i0.h>>
         IN  IF ResizeFails(s2) THEN Raised("ResizeError")
             ELSE LET s3 == IF NeedsUpscale(s2[1], s2[2]) THEN Step3Size(s2[1], s2[2])
                                                          ELSE s2
                      mode == EncodeMode(i0.mode, fmt)
                  IN  IF ResizeFails(s3) THEN Raised("ResizeError")
                      ELSE IF SaveFails(mode, fmt) THEN Raised("EncodeError")
                      ELSE [ok |-> TRUE, error |-> "", w |-> s3[1], h |-> s3[2],
                            mode |-> mode, fmt |-> Upper(fmt)]

----------------------------------------------------------------------------
(* The Streamlit script *)

\* uploads: an empty file, bytes that are no image, and three images
Uploads == {"empty", "garbage", "photo", "sliver", "cmyk"}
GarmentClasses == {"FULL_BODY", "UPPER_BODY", "LOWER_BODY"}
Seeds == 0..MaxSeed
\* what invoke_vto returns (a base64 string) or raises
InvokeReturns == {"image_b64", "junk_b64", "bad_b64"}
InvokeRaises == {"ReadTimeoutError", "ValidationException", "KeyError"}

\* Image.open on io.BytesIO(bytes)
ImageOpen(bytes) ==
    CASE bytes = "photo"  -> [decodable |-> TRUE, w |-> 600, h |-> 800, mode |-> "RGB", exif |-> 1]
      [] bytes = "sliver" -> [decodable |-> TRUE, w |-> 1, h |-> 4000, mode |-> "RGBA", exif |-> 1]
      [] bytes = "cmyk"   -> [decodable |-> TRUE, w |-> 4000, h |-> 3000, mode |-> "CMYK", exif |-> 6]
      [] OTHER            -> Garbage

\* truth value of a bytes object or None
Truthy(bytes) == bytes \notin {"None", "empty"}

\* garment_class.lower()
Lower(g) ==
    CASE g = "FULL_BODY" -> "full_body" [] g = "UPPER_BODY" -> "upper_body"
      [] g = "LOWER_BODY" -> "lower_body" [] OTHER -> g

\* base64.b64decode(out_b64)
B64Decode(b) ==
    CASE b = "image_b64" -> "image_bytes" [] b = "junk_b64" -> "junk_bytes" [] OTHER -> "Error"

NoReport == [at |-> "", error |-> ""]
NoLocals == [src_b64 |-> NoPayload, ref_b64 |-> NoPayload, out_b64 |-> "None"]

\* the result column: without both uploads the stored result is dropped
RenderResult(ss) ==
    IF Truthy(ss.person_bytes) /\ Truthy(ss.product_bytes)
    THEN ss ELSE [ss EXCEPT !.vto_result_bytes = "None"]

\* an except clause that also drops the stored result
OnFailureClears(ss) == [ss EXCEPT !.vto_result_bytes = "None"]

\* except Exception as e: st.error(...); st.stop()
OnFailure(ss) == ss

\* st.session_state.vto_result_bytes = out_bytes; vto_result_name = f"vto_{...}_{seed}.png"
OnSuccess(ss, out_bytes, g, seed) ==
    [ss EXCEPT !.vto_result_bytes = out_bytes,
               !.vto_result_name = [garment |-> Lower(g), seed |-> seed]]

\* a script run started by a user event begins with fresh locals and a fresh page
FreshRun ==
    /\ locals' = NoLocals
    /\ steps' = <<>>
    /\ reported' = NoReport

UploadPerson(b) ==
    /\ ui_pc = "idle"
    /\ session_state.person_bytes = "None"
    /\ session_state' = RenderResult([session_state EXCEPT !.person_bytes = b])
    /\ FreshRun
    /\ UNCHANGED <<ui_pc, pre, widgets>>
    /\ UNCHANGED normVars

UploadProduct(b) ==
    /\ ui_pc = "idle"
    /\ session_state.product_bytes = "None"
    /\ session_state' = RenderResult([session_state EXCEPT !.product_bytes = b])
    /\ FreshRun
    /\ UNCHANGED <<ui_pc, pre, widgets>>
    /\ UNCHANGED normVars

ChangePerson ==
    /\ ui_pc = "idle"
    /\ session_state.person_bytes # "None"
    /\ session_state' = RenderResult([RenderResult(session_state) EXCEPT
                                        !.person_bytes = "None", !.vto_result_bytes = "None"])
    /\ FreshRun
    /\ UNCHANGED <<ui_pc, pre, widgets>>
    /\ UNCHANGED normVars

ChangeProduct ==
    /\ ui_pc = "idle"
    /\ session_state.product_bytes # "None"
    /\ session_state' = RenderResult([RenderResult(session_state) EXCEPT
                                        !.product_bytes = "None", !.vto_result_bytes = "None"])
    /\ FreshRun
    /\ UNCHANGED <<ui_pc, pre, widgets>>
    /\ UNCHANGED normVars

SetWidgets(g, seed) ==
    /\ ui_pc = "idle"
    /\ widgets' = [garment_class |-> g, seed |-> seed]
    /\ widgets' # widgets
    /\ session_state' = RenderResult(session_state)
    /\ FreshRun
    /\ UNCHANGED <<ui_pc, pre>>
    /\ UNCHANGED normVars

\* the Generate button is enabled only with both file objects present
ClickGenerate ==
    /\ ui_pc = "idle"
    /\ Truthy(session_state.person_bytes) /\ Truthy(session_state.product_bytes)
    /\ session_state' = RenderResult(session_state)
    /\ pre' = RenderResult(session_state)
    /\ FreshRun
    /\ ui_pc' = "normalize_person"
    /\ UNCHANGED widgets
    /\ UNCHANGED normVars

\* the except clause, entered from the call named at
Except(at, error) ==
    /\ reported' = [at |-> at, error |-> error]
    /\ session_state' = OnFailure(session_state)
    /\ ui_pc' = "idle"
    /\ UNCHANGED locals

NormalizePerson ==
    /\ ui_pc = "normalize_person"
    /\ steps' = Append(steps, "normalize_person")
    /\ LET r == normalize_image(ImageOpen(session_state.person_bytes), "JPEG")
       IN  IF r.ok
           THEN /\ locals' = [locals EXCEPT !.src_b64 = r]
                /\ ui_pc' = "normalize_product"
                /\ UNCHANGED <<session_state, reported>>
           ELSE Except("normalize_person", r.error)
    /\ UNCHANGED <<pre, widgets>>
    /\ UNCHANGED normVars

NormalizeProduct ==
    /\ ui_pc = "normalize_product"
    /\ steps' = Append(steps, "normalize_product")
    /\ LET r == normalize_image(ImageOpen(session_state.product_bytes), "PNG")
       IN  IF r.ok
           THEN /\ locals' = [locals EXCEPT !.ref_b64 = r]
                /\ ui_pc' = "invoke_vto"
                /\ UNCHANGED <<session_state, reported>>
           ELSE Except("normalize_product", r.error)
    /\ UNCHANGED <<pre, widgets>>
    /\ UNCHANGED normVars

InvokeVto ==
    /\ ui_pc = "invoke_vto"
    /\ steps' = Append(steps, "invoke_vto")
    /\ \/ \E b \in InvokeReturns :
            /\ locals' = [locals EXCEPT !.out_b64 = b]
            /\ ui_pc' = "store"
            /\ UNCHANGED <<session_state, reported>>
       \/ \E e \in InvokeRaises : Except("invoke_vto", e)
    /\ UNCHANGED <<pre, widgets>>
    /\ UNCHANGED normVars

\* out_bytes = base64.b64decode(out_b64) ... result_box.image(out_bytes)
Store ==
    /\ ui_pc = "store"
    /\ LET out_bytes == B64Decode(locals.out_b64)
       IN  IF out_bytes = "Error"
           THEN /\ steps' = Append(steps, "b64decode")
                /\ Except("b64decode", "Error")
           ELSE /\ steps' = Append(Append(steps, "b64decode"), "store")
                /\ session_state' = OnSuccess(session_state, out_bytes,
                                              widgets.garment_class, widgets.seed)
                /\ reported' = IF out_bytes = "image_bytes" THEN NoReport
                               ELSE [at |-> "result_box.image", error |-> "UnidentifiedImageError"]
                /\ ui_pc' = "idle"
                /\ UNCHANGED locals
    /\ UNCHANGED <<pre, widgets>>
    /\ UNCHANGED normVars

NormUnused ==
    /\ file = Garbage
    /\ force_format = "JPEG"
    /\ pc = "unused"
    /\ img = NoImg
    /\ src = NoImg
    /\ fired = {}
    /\ resized = <<>>
    /\ err = ""
    /\ pass = 1
    /\ prev = NoImg
    /\ prev_fired = {}

UIIdle ==
    /\ session_state = [person_bytes |-> "None", product_bytes |-> "None",
                        vto_result_bytes |-> "None",
                        vto_result_name |-> [garment |-> "", seed |-> -1]]
    /\ ui_pc = "idle"
    /\ locals = NoLocals
    /\ steps = <<>>
    /\ pre = session_state
    /\ reported = NoReport
    /\ widgets = [garment_class |-> "FULL_BODY", seed |-> 0]

InitUI == NormUnused /\ UIIdle

NextUI ==
    \/ \E b \in Uploads : UploadPerson(b)
    \/ \E b \in Uploads : UploadProduct(b)
    \/ ChangePerson
    \/ ChangeProduct
    \/ \E g \in GarmentClasses, seed \in Seeds : SetWidgets(g, seed)
    \/ ClickGenerate
    \/ NormalizePerson
    \/ NormalizeProduct
    \/ InvokeVto
    \/ Store

SpecUI == InitUI /\ [][NextUI]_vars

----------------------------------------------------------------------------
(* normalize_image applied to every generated input, step by step *)

Init ==
    /\ file \in DecodableFiles \cup {Garbage}
    /\ force_format \in Formats
    /\ pc = "open"
    /\ img = NoImg
    /\ src = NoImg
    /\ fired = {}
    /\ resized = <<>>
    /\ err = ""
    /\ pass = 1
    /\ prev = NoImg
    /\ prev_fired = {}
    /\ UIIdle

Next == Open \/ Downscale \/ Upscale \/ Encode \/ Renormalize

Spec == Init /\ [][Next]_vars

----------------------------------------------------------------------------
(* Properties *)

OutLong == long_side(img.w, img.h)
OutShort == short_side(img.w, img.h)
InLong == long_side(src.w, src.h)
InShort == short_side(src.w, src.h)

\* the step-by-step run and the one-call operator describe the same function
StepwiseAgrees ==
    pc \in {"done", "error"} =>
        LET r == normalize_image(file, force_format)
        IN  /\ r.ok = (pc = "done")
            /\ r.error = err
            /\ r.ok => (r.w = img.w /\ r.h = img.h /\ r.mode = img.mode)

\* exact floor(w * a / b)
FloorMul(w, a, b) == DivMul(w, a, b)[1]

\* the staged computation with exact truncation at every stage
RefStep2(w, h) ==
    IF Max(w, h) > target_max
    THEN <<FloorMul(w, target_max, Max(w, h)), FloorMul(h, target_max, Max(w, h))>>
    ELSE <<w, h>>
RefClamp(w, h) ==
    IF Max(w, h) > abs_cap
    THEN <<FloorMul(w, abs_cap, Max(w, h)), FloorMul(h, abs_cap, Max(w, h))>>
    ELSE <<w, h>>
RefStep3(w, h) ==
    IF Min(w, h) >= min_side THEN <<w, h>>
    ELSE RefClamp(FloorMul(w, min_side, Min(w, h)), FloorMul(h, min_side, Min(w, h)))
RefDims(w, h) == RefStep3(RefStep2(w, h)[1], RefStep2(w, h)[2])

\* some scale s has |w2 - s*w| < 1 and |h2 - s*h| < 1: the open intervals
\* ((w2-1)/w, (w2+1)/w) and ((h2-1)/h, (h2+1)/h) meet
AspectKept(w, h, w2, h2) ==
    /\ (w2 - 1) * h < (h2 + 1) * w
    /\ (h2 - 1) * w < (w2 + 1) * h

\* C1: the image normalize_image encodes has short side >= 320.
C1_ShortSideAtLeastMin == pc = "done" => OutShort >= min_side

\* C2: the image normalize_image encodes has long side <= 4096, also when
\* the Step 3 upscale overshoots and the secondary scale s2 is applied.
C2_LongSideWithinAbsCap == pc = "done" => (OutLong <= abs_cap /\ OutShort <= abs_cap)

C2_Witness == pc = "done" /\ "clamp" \in fired /\ OutLong <= abs_cap /\ pass = 1

\* C3 as stated: an input with long side <= 3072 gives an output with long
\* side <= 3072.
C3_NoOvershoot == (pc = "done" /\ InLong <= target_max) => OutLong <= target_max

\* C3 amended: an input with long side <= 3072 gives an output with long
\* side <= 3072 when Step 3 does not fire, and <= 4096 when it does.
C3_OvershootBoundedByAbsCap ==
    (pc = "done" /\ InLong <= target_max) =>
        /\ OutLong <= abs_cap
        /\ "step3" \notin fired => (OutLong <= target_max /\ OutLong = InLong)

C3_Witness ==
    /\ pc = "done" /\ pass = 1
    /\ InLong <= target_max
    /\ "step3" \in fired
    /\ OutLong > target_max

\* C4 as stated: an input with long side > 3072 gives an output with long
\* side <= 3072, also when Step 3 runs on the result of Step 2.
C4_DownscaledStaysCapped == (pc = "done" /\ InLong > target_max) => OutLong <= target_max

\* C4 amended: for an input with long side > 3072 the result of Step 2 has
\* long side <= 3072; the output keeps it when Step 3 does not fire, and has
\* long side <= 4096 when Step 3 fires on Step 2's result.
C4_CappedUnlessUpscaled ==
    InLong > target_max =>
        /\ pc = "step3" => OutLong <= target_max
        /\ pc = "done" => OutLong <= abs_cap
        /\ (pc = "done" /\ "step3" \notin fired) => OutLong <= target_max

C4_Witness ==
    /\ pc = "done" /\ pass = 1
    /\ InLong > target_max
    /\ fired = {"step2", "step3", "clamp"}
    /\ OutLong > target_max

\* C5 as stated: normalising the output of normalize_image again, with the
\* same format, fires neither Step 2 nor Step 3 and keeps width and height.
C5_Idempotent ==
    (pass >= 2 /\ pc = "done") => (fired = {} /\ img.w = prev.w /\ img.h = prev.h)

\* C5 amended: when the first call did not run the Step 3 upscale,
\* normalising its output again fires neither Step 2 nor Step 3, raises
\* nothing and keeps width and height.
C5_IdempotentWithoutUpscale ==
    (pass >= 2 /\ "step3" \notin prev_fired /\ pc \in {"step3", "encode", "done", "error"}) =>
        /\ pc # "error"
        /\ fired = {}
        /\ img.w = prev.w /\ img.h = prev.h

C5_Witness ==
    /\ pass = 2 /\ pc = "done"
    /\ prev_fired = {"step2"}
    /\ fired = {}
    /\ img.w = prev.w /\ img.h = prev.h

\* C6 as stated: for every input with w # h one scale factor s puts both
\* output sides within less than one pixel of s*w and s*h, whatever
\* combination of Step 2, Step 3 and the clamp ran.
C6_AspectWithinOnePixel ==
    (pc = "done" /\ src.w # src.h) => AspectKept(src.w, src.h, img.w, img.h)

\* C6 amended: for every input with w # h on which at most one truncating
\* rescale ran (Step 2 alone, or Step 3 without the clamp, or none), one
\* scale factor s puts both output sides within less than one pixel of s*w
\* and s*h.
C6_AspectWithinOnePixelSingleRescale ==
    (pc = "done" /\ src.w # src.h /\ Cardinality(fired) <= 1) =>
        AspectKept(src.w, src.h, img.w, img.h)

C6_Witness ==
    /\ pc = "done" /\ pass = 1
    /\ src.w # src.h
    /\ fired = {"step2"}
    /\ img.w # img.h
    /\ AspectKept(src.w, src.h, img.w, img.h)

\* C7: with JPEG the encoded image is RGB and so has no alpha channel,
\* whatever the input's mode; with PNG it has an alpha channel exactly when
\* the input had one.
C7_FormatContract ==
    pc = "done" =>
        /\ Upper(force_format) = "JPEG" => (img.mode = "RGB" /\ ~HasAlpha(img.mode))
        /\ Upper(force_format) = "PNG" => (HasAlpha(img.mode) <=> HasAlpha(file.mode))

C7_Witness ==
    /\ pc = "done" /\ pass = 1
    /\ force_format = "JPEG"
    /\ file.mode = "LA"
    /\ fired # {}
    /\ img.mode = "RGB"

\* C8: the output dimensions equal the staged computation with exact
\* truncation at every stage: floor(w*3072/L) in Step 2, floor(w*320/S) and
\* the 4096 clamp in Step 3; 6000x4000 gives 3072x2048, 100x150 gives 320x480.
C8_StagedFloor ==
    pc = "done" =>
        /\ <<img.w, img.h>> = RefDims(src.w, src.h)
        /\ (src.w = 6000 /\ src.h = 4000) => (img.w = 3072 /\ img.h = 2048)
        /\ (src.w = 100 /\ src.h = 150) => (img.w = 320 /\ img.h = 480)

\* C10: every target size handed to resize for a decoded image with both
\* sides >= 1 has both sides >= 1, so no ResizeError is raised and Step 3
\* never divides by a short side of 0.
C10_ResizeTargetsPositive ==
    /\ \A i \in DOMAIN resized : resized[i][1] >= 1 /\ resized[i][2] >= 1
    /\ err # "ResizeError"
    /\ pc = "step3" => short_side(img.w, img.h) >= 1

\* C9: in a Generate run a failure of the person normalisation, the product
\* normalisation or the inference call leaves vto_result_bytes and
\* vto_result_name as they were before the run, is reported, and ends the
\* run at the failing call; invoke_vto is called only after both
\* normalisations returned.
C9_FailureKeepsResult ==
    /\ reported.at \in {"normalize_person", "normalize_product", "invoke_vto"} =>
          /\ session_state.vto_result_bytes = pre.vto_result_bytes
          /\ session_state.vto_result_name = pre.vto_result_name
          /\ reported.error # ""
          /\ ui_pc = "idle"
          /\ steps # <<>> /\ steps[Len(steps)] = reported.at
    /\ \A i \in DOMAIN steps :
          steps[i] = "invoke_vto" =>
              /\ i = 3 /\ steps[1] = "normalize_person" /\ steps[2] = "normalize_product"
              /\ locals.src_b64.ok /\ locals.ref_b64.ok
    /\ \A i \in DOMAIN steps :
          steps[i] = "store" => \A j \in 1..i : steps[j] # reported.at

C9_Witness ==
    /\ reported.at = "invoke_vto"
    /\ pre.vto_result_bytes = "image_bytes"
    /\ session_state.vto_result_bytes = "image_bytes"
    /\ ui_pc = "idle"

====
